---- MODULE Spec2Model ----
(***************************************************************************)
(* Model of src/src/multikeylock.rs: MultiKeyLock, a keyed async lock      *)
(* manager over a DashMap<String, u64> registry, and its KeyLock guard.    *)
(*                                                                         *)
(* Time is in milliseconds and is kept as time left on each running sleep. *)
(* Tasks run on a runtime with `workers` worker threads.  A task that is   *)
(* between two awaits occupies a worker; a task suspended in select! does  *)
(* not.  DashMap::entry() and remove_if() take the write lock of the shard *)
(* of the key and block the calling thread while another reference into    *)
(* the shard is alive.  The RefMut `loaded` of lock_with_token lives to    *)
(* the end of the loop body, so it is alive across the select! of a failed *)
(* round.  A step that needs no time is taken before the clock advances.   *)
(***************************************************************************)
EXTENDS Integers, FiniteSets, Sequences, TLC

(* ---- program constants (ms) ---- *)
DEFAULT_TIMEOUT == 5000
DEFAULT_RETRY == 10
MAX_BACKOFF == 1000

(* ---- bounds ---- *)
NumTasks == 2
MaxCalls == 3
MaxWorkers == 2
MaxTime == 1300
MaxRounds == 3

Tasks == 1..NumTasks
Keys == {"A", "B"}
Shards == 1..Cardinality(Keys)
NoEntry == -1
NoTask == 0
None == -1
ConfigRetryChoices == {400, 1500}
ConfigTimeoutChoices == {100}
TimeoutChoices == {0, 100, 400}
ConfigMapChoices == {[k \in Keys |-> NoEntry], [k \in Keys |-> IF k = "B" THEN 1 ELSE NoEntry]}

VARIABLES
  locks,         \* MultiKeyLock.locks: key -> token, NoEntry when absent
  shardOf,       \* DashMap's partition of the keys into shards (by hash)
  shardLock,     \* per shard: the task whose RefMut `loaded` is alive
  counter,       \* GLOBAL_COUNTER
  workers,       \* number of worker threads of the runtime
  retryCfg,      \* MultiKeyLock.retry
  timeoutCfg,    \* MultiKeyLock.timeout
  pc,            \* per task: "idle", "attempt" (on a thread, at entry()), "select"
  mode,          \* per task: the public operation of the current call
  key,           \* per task: key of the current call
  token_id,      \* per task: token minted by the current call
  retry,         \* per task: local `retry` of lock_with_token
  sleep_retry,   \* per task: time left of sleep(retry) in select!
  cancelled,     \* per task: state of the CancellationToken of the call
  timer,         \* per task: timer task of lock_with_timeout
  sleep_timeout, \* per task: time left of sleep(timeout) in the timer task
  timeout,       \* per task: `timeout` argument of lock_with_timeout
  elapsed,       \* per task: time since the current call started (at most MaxTime)
  round,         \* per task: failed rounds of the current call (at most MaxRounds)
  result,        \* per task: result of the last call
  guards,        \* live KeyLock values
  dropping,      \* guards whose drop() is on a thread, at remove_if()
  released       \* per key: token of the KeyLock dropped last, NoEntry if none

vars == <<locks, shardOf, shardLock, counter, workers, retryCfg, timeoutCfg,
          pc, mode, key, token_id, retry, sleep_retry, cancelled, timer,
          sleep_timeout, timeout, elapsed, round, result, guards, dropping, released>>

cfgVars == <<shardOf, workers, retryCfg, timeoutCfg>>

\* the locals of a call, other than pc, result and timer
callVars == <<mode, key, token_id, retry, sleep_retry, cancelled, sleep_timeout,
              timeout, elapsed, round>>

Min(a, b) == IF a < b THEN a ELSE b

Max(a, b) == IF a > b THEN a ELSE b

KeyLock(k, tok) == [key |-> k, token_id |-> tok]

\* the KeyLock values the calls can return
AllKeyLocks == {KeyLock(k, tok) : k \in Keys, tok \in 0..(MaxCalls - 1)}

\* threads that are running or blocked in a synchronous section
OnThread == Cardinality({t \in Tasks : pc[t] = "attempt"}) + Cardinality(dropping)

FreeWorker == OnThread < workers

ShardFree(k) == shardLock[shardOf[k]] = NoTask

\* config.timeout.unwrap_or_else(|| DEFAULT_TIMEOUT), and the same for retry
unwrap_or(opt, default) == IF opt = None THEN default ELSE opt

\* no call is in progress and no call has returned yet
NoCalls ==
  /\ pc = [t \in Tasks |-> "idle"]
  /\ mode = [t \in Tasks |-> "-"]
  /\ key = [t \in Tasks |-> "-"]
  /\ token_id = [t \in Tasks |-> 0]
  /\ retry = [t \in Tasks |-> 0]
  /\ sleep_retry = [t \in Tasks |-> 0]
  /\ cancelled = [t \in Tasks |-> FALSE]
  /\ timer = [t \in Tasks |-> "none"]
  /\ sleep_timeout = [t \in Tasks |-> 0]
  /\ timeout = [t \in Tasks |-> 0]
  /\ elapsed = [t \in Tasks |-> 0]
  /\ round = [t \in Tasks |-> 0]
  /\ result = [t \in Tasks |-> "-"]
  /\ dropping = {}
  /\ released = [k \in Keys |-> NoEntry]

\* MultiKeyLock::with_config(Config {map, timeout, retry}), on a runtime with
\* w worker threads and a DashMap whose hash puts the keys into shards sh
with_config(map, tmo, rty, w, sh) ==
  /\ locks = map
  /\ shardOf = sh
  /\ shardLock = [s \in Shards |-> NoTask]
  /\ counter = 0
  /\ workers = w
  /\ retryCfg = unwrap_or(rty, DEFAULT_RETRY)
  /\ timeoutCfg = unwrap_or(tmo, DEFAULT_TIMEOUT)
  /\ guards = {}
  /\ NoCalls

\* the partitions of the keys into shards, up to renaming of the shards
ShardChoices == {sh \in [Keys -> Shards] : sh["A"] = 1}

\* a manager built by with_config from a Config of the caller
Init ==
  \E map \in ConfigMapChoices, tmo \in ConfigTimeoutChoices, rty \in ConfigRetryChoices,
     w \in 1..MaxWorkers, sh \in ShardChoices :
    with_config(map, tmo, rty, w, sh)

\* Config::default(): empty map, Some(DEFAULT_TIMEOUT), Some(DEFAULT_RETRY)
ConfigDefault == [map |-> [k \in Keys |-> NoEntry], timeout |-> DEFAULT_TIMEOUT,
                  retry |-> DEFAULT_RETRY]

\* a manager built by MultiKeyLock::new()
InitNew ==
  \E w \in 1..MaxWorkers, sh \in ShardChoices :
    with_config(ConfigDefault.map, ConfigDefault.timeout, ConfigDefault.retry, w, sh)

\* (mutant) the timer task does not sleep before it cancels
TimerDelay_none(tmo) == 0

\* sleep(timeout) of the timer task: the time it sleeps
TimerDelay(tmo) == tmo

\* (mutant) load() in place of fetch_add(): the counter is read, not advanced
fetch_add_none(c, n) == c

\* GLOBAL_COUNTER.fetch_add(n, SeqCst): the value stored afterwards (the old
\* value is returned); the u64 is far from wrapping within MaxCalls calls
fetch_add(c, n) == c + n

\* common start of a call: fetch_add on GLOBAL_COUNTER, the locals set up
StartCall(t, k, c) ==
  /\ pc[t] = "idle"
  /\ counter < MaxCalls
  /\ FreeWorker
  /\ counter' = fetch_add(counter, 1)
  /\ pc' = [pc EXCEPT ![t] = "attempt"]
  /\ key' = [key EXCEPT ![t] = k]
  /\ token_id' = [token_id EXCEPT ![t] = counter]
  /\ retry' = [retry EXCEPT ![t] = retryCfg]
  /\ sleep_retry' = [sleep_retry EXCEPT ![t] = 0]
  /\ cancelled' = [cancelled EXCEPT ![t] = c]
  /\ elapsed' = [elapsed EXCEPT ![t] = 0]
  /\ round' = [round EXCEPT ![t] = 0]
  /\ result' = [result EXCEPT ![t] = "pending"]
  /\ UNCHANGED <<locks, shardLock, guards, dropping, cfgVars, released>>

\* the call has no timer task
NoTimer(t) ==
  /\ timer' = [timer EXCEPT ![t] = "none"]
  /\ UNCHANGED <<sleep_timeout, timeout>>

\* tokio::spawn(async move { sleep(timeout).await; cancel_clone.cancel(); })
SpawnTimer(t, tmo) ==
  /\ timer' = [timer EXCEPT ![t] = "pending"]
  /\ sleep_timeout' = [sleep_timeout EXCEPT ![t] = TimerDelay(tmo)]
  /\ timeout' = [timeout EXCEPT ![t] = tmo]

try_lock_now(t, k) ==
  /\ StartCall(t, k, FALSE)
  /\ mode' = [mode EXCEPT ![t] = "try_lock_now"]
  /\ NoTimer(t)

\* c: whether the token passed by the caller is cancelled already
lock_with_token(t, k, c) ==
  /\ StartCall(t, k, c)
  /\ mode' = [mode EXCEPT ![t] = "lock_with_token"]
  /\ NoTimer(t)

lock_with_timeout(t, k, tmo) ==
  /\ StartCall(t, k, FALSE)
  /\ mode' = [mode EXCEPT ![t] = "lock_with_timeout"]
  /\ SpawnTimer(t, tmo)

\* self.lock_with_timeout(key, self.timeout)
lock(t, k) ==
  /\ StartCall(t, k, FALSE)
  /\ mode' = [mode EXCEPT ![t] = "lock"]
  /\ SpawnTimer(t, timeoutCfg)

\* (mutant) insert() in place of entry().or_insert(): the entry is overwritten
or_insert_overwrites(k, tok) == tok

\* self.locks.entry(key).or_insert(token_id): the value stored afterwards
or_insert(k, tok) == IF locks[k] = NoEntry THEN tok ELSE locks[k]

\* handle.abort() of lock_with_timeout, run when lock_with_token returns
Abort(t) == IF timer[t] = "pending" THEN "aborted" ELSE timer[t]

\* the call of task t returns res; its locals go out of scope
Return(t, res) ==
  /\ pc' = [pc EXCEPT ![t] = "idle"]
  /\ result' = [result EXCEPT ![t] = res]
  /\ timer' = [timer EXCEPT ![t] = Abort(t)]
  /\ mode' = [mode EXCEPT ![t] = "-"]
  /\ key' = [key EXCEPT ![t] = "-"]
  /\ token_id' = [token_id EXCEPT ![t] = 0]
  /\ retry' = [retry EXCEPT ![t] = 0]
  /\ sleep_retry' = [sleep_retry EXCEPT ![t] = 0]
  /\ cancelled' = [cancelled EXCEPT ![t] = FALSE]
  /\ sleep_timeout' = [sleep_timeout EXCEPT ![t] = 0]
  /\ timeout' = [timeout EXCEPT ![t] = 0]
  /\ elapsed' = [elapsed EXCEPT ![t] = 0]
  /\ round' = [round EXCEPT ![t] = 0]

\* (mutant) select! takes the `cancel.cancelled()` branch whatever the token
FirstPollCancelled_always(t) == TRUE

\* (mutant) the cancellation is looked at only after the sleep
FirstPollCancelled_unchecked(t) == FALSE

\* select!: `cancel.cancelled()` is ready when select! is first polled
FirstPollCancelled(t) == cancelled[t]

\* (mutant) the comparison is inverted for the caller's own token
Acquired_never(loaded, tok) == FALSE

\* (mutant) the value found in the entry is not compared with the token
Acquired_always(loaded, tok) == TRUE

\* `*loaded == token_id`
Acquired(loaded, tok) == loaded = tok

\* one round of the loop (or the single round of try_lock_now), up to the
\* first poll of select!
InsertRound(t) ==
  /\ pc[t] = "attempt"
  /\ ShardFree(key[t])
  /\ LET loaded == or_insert(key[t], token_id[t]) IN
     /\ locks' = [locks EXCEPT ![key[t]] = loaded]
     /\ IF Acquired(loaded, token_id[t])
        THEN /\ guards' = guards \cup {KeyLock(key[t], token_id[t])}
             /\ Return(t, "guard")
             /\ UNCHANGED shardLock
        ELSE IF mode[t] = "try_lock_now" \/ FirstPollCancelled(t)
        THEN /\ Return(t, "none")
             /\ UNCHANGED <<guards, shardLock>>
        ELSE /\ pc' = [pc EXCEPT ![t] = "select"]
             /\ sleep_retry' = [sleep_retry EXCEPT ![t] = retry[t]]
             /\ round' = [round EXCEPT ![t] = Min(round[t] + 1, MaxRounds)]
             /\ shardLock' = [shardLock EXCEPT ![shardOf[key[t]]] = t]
             /\ UNCHANGED <<guards, result, timer, mode, key, token_id, retry,
                            cancelled, sleep_timeout, timeout, elapsed>>
  /\ UNCHANGED <<counter, dropping, cfgVars, released>>

\* select!: the `cancel.cancelled()` branch
SelectCancelled(t) ==
  /\ pc[t] = "select"
  /\ cancelled[t]
  /\ FreeWorker
  /\ Return(t, "none")
  /\ shardLock' = [shardLock EXCEPT ![shardOf[key[t]]] = NoTask]
  /\ UNCHANGED <<locks, counter, guards, dropping, cfgVars, released>>

\* retry = min(retry * 2, MAX_BACKOFF)
NextRetry(r) == Min(r * 2, MAX_BACKOFF)

\* select!: the `sleep(retry)` branch, then the end of the loop body
SelectSleepElapsed(t) ==
  /\ pc[t] = "select"
  /\ sleep_retry[t] = 0
  /\ FreeWorker
  /\ retry' = [retry EXCEPT ![t] = NextRetry(retry[t])]
  /\ shardLock' = [shardLock EXCEPT ![shardOf[key[t]]] = NoTask]
  /\ pc' = [pc EXCEPT ![t] = "attempt"]
  /\ UNCHANGED <<locks, counter, mode, key, token_id, sleep_retry, cancelled, timer,
                 sleep_timeout, timeout, elapsed, round, result, guards, dropping,
                 cfgVars, released>>

\* the task spawned by lock_with_timeout: sleep(timeout), then cancel
TimerFire(t) ==
  /\ timer[t] = "pending"
  /\ sleep_timeout[t] = 0
  /\ FreeWorker
  /\ timer' = [timer EXCEPT ![t] = "fired"]
  /\ cancelled' = [cancelled EXCEPT ![t] = TRUE]
  /\ UNCHANGED <<locks, shardLock, counter, pc, mode, key, token_id, retry,
                 sleep_retry, sleep_timeout, timeout, elapsed, round, result,
                 guards, dropping, cfgVars, released>>

\* the caller of lock_with_token cancels the token it passed
CancelToken(t) ==
  /\ mode[t] = "lock_with_token"
  /\ ~cancelled[t]
  /\ cancelled' = [cancelled EXCEPT ![t] = TRUE]
  /\ UNCHANGED <<locks, shardLock, counter, pc, mode, key, token_id, retry,
                 sleep_retry, timer, sleep_timeout, timeout, elapsed, round,
                 result, guards, dropping, cfgVars, released>>

\* a KeyLock goes out of scope: drop() starts on a thread
DropBegin(g) ==
  /\ g \in guards \ dropping
  /\ FreeWorker
  /\ dropping' = dropping \cup {g}
  /\ UNCHANGED <<locks, shardLock, counter, pc, timer, result, guards, callVars,
                 cfgVars, released>>

\* (mutant) the predicate of remove_if is inverted: the own entry stays
remove_if_keeps(k, tok) == IF locks[k] # tok THEN [locks EXCEPT ![k] = NoEntry] ELSE locks

\* (mutant) clear() in place of remove_if(): every entry of the map goes
remove_if_all(k, tok) == [j \in Keys |-> NoEntry]

\* (mutant) remove() in place of remove_if(): the entry goes whatever it holds
remove_if_any(k, tok) == [locks EXCEPT ![k] = NoEntry]

\* self.map.remove_if(&self.key, |_, v| *v == self.token_id)
remove_if(k, tok) == IF locks[k] = tok THEN [locks EXCEPT ![k] = NoEntry] ELSE locks

Drop(g) ==
  /\ g \in dropping
  /\ ShardFree(g.key)
  /\ locks' = remove_if(g.key, g.token_id)
  /\ guards' = guards \ {g}
  /\ dropping' = dropping \ {g}
  /\ released' = [released EXCEPT ![g.key] = g.token_id]
  /\ UNCHANGED <<shardLock, counter, pc, timer, result, callVars, cfgVars>>

\* a step that runs without waiting for the clock is enabled
Urgent ==
  \/ \E t \in Tasks : pc[t] = "attempt" /\ ShardFree(key[t])
  \/ \E t \in Tasks : pc[t] = "select" /\ (cancelled[t] \/ sleep_retry[t] = 0) /\ FreeWorker
  \/ \E t \in Tasks : timer[t] = "pending" /\ sleep_timeout[t] = 0 /\ FreeWorker
  \/ \E g \in dropping : ShardFree(g.key)

\* the time left on the sleeps that have not elapsed
Deadlines ==
  {sleep_retry[t] : t \in {u \in Tasks : pc[u] = "select" /\ sleep_retry[u] > 0}}
    \cup {sleep_timeout[t] : t \in {u \in Tasks : timer[u] = "pending" /\ sleep_timeout[u] > 0}}

\* the clock advances by d, to the next deadline
Tick ==
  /\ ~Urgent
  /\ \E t \in Tasks : pc[t] # "idle"
  /\ \E d \in Deadlines :
       /\ \A l \in Deadlines : d <= l
       /\ sleep_retry' = [t \in Tasks |->
            IF pc[t] = "select" THEN Max(sleep_retry[t] - d, 0) ELSE sleep_retry[t]]
       /\ sleep_timeout' = [t \in Tasks |->
            IF timer[t] = "pending" THEN Max(sleep_timeout[t] - d, 0) ELSE sleep_timeout[t]]
       /\ elapsed' = [t \in Tasks |->
            IF pc[t] # "idle" THEN Min(elapsed[t] + d, MaxTime) ELSE elapsed[t]]
  /\ UNCHANGED <<locks, shardLock, counter, pc, mode, key, token_id, retry,
                 cancelled, timer, timeout, round, result, guards, dropping,
                 cfgVars, released>>

Next ==
  \/ \E t \in Tasks, k \in Keys : try_lock_now(t, k)
  \/ \E t \in Tasks, k \in Keys, c \in BOOLEAN : lock_with_token(t, k, c)
  \/ \E t \in Tasks, k \in Keys, tmo \in TimeoutChoices : lock_with_timeout(t, k, tmo)
  \/ \E t \in Tasks, k \in Keys : lock(t, k)
  \/ \E t \in Tasks : InsertRound(t)
  \/ \E t \in Tasks : SelectCancelled(t)
  \/ \E t \in Tasks : SelectSleepElapsed(t)
  \/ \E t \in Tasks : TimerFire(t)
  \/ \E t \in Tasks : CancelToken(t)
  \/ \E g \in AllKeyLocks : DropBegin(g)
  \/ \E g \in AllKeyLocks : Drop(g)
  \/ Tick

Spec == Init /\ [][Next]_vars

SpecNew == InitNew /\ [][Next]_vars

(* ---- several managers in one process ---- *)

\* an acquisition call on another MultiKeyLock of the process: it mints its
\* token from the same static GLOBAL_COUNTER and works on its own registry
OtherManagerCall ==
  /\ counter < MaxCalls
  /\ counter' = fetch_add(counter, 1)
  /\ UNCHANGED <<locks, shardLock, pc, timer, result, guards, dropping, callVars,
                 cfgVars, released>>

NextManagers ==
  \/ Next
  \/ OtherManagerCall

SpecManagers == Init /\ [][NextManagers]_vars

(* ---- a caller that gives up the wait ---- *)

\* the caller drops the future of lock_with_timeout / lock while the call is
\* suspended at `.await` (line 72): the locals of lock_with_token go, the
\* RefMut `loaded` with them; handle.abort() (line 73) is never reached and
\* the JoinHandle is dropped, which leaves the timer task running
Abandon(t) ==
  /\ pc[t] = "select"
  /\ mode[t] \in {"lock_with_timeout", "lock"}
  /\ FreeWorker
  /\ pc' = [pc EXCEPT ![t] = "abandoned"]
  /\ result' = [result EXCEPT ![t] = "abandoned"]
  /\ shardLock' = [shardLock EXCEPT ![shardOf[key[t]]] = NoTask]
  /\ UNCHANGED <<locks, counter, timer, guards, dropping, callVars, cfgVars, released>>

NextAbandon ==
  \/ Next
  \/ \E t \in Tasks : Abandon(t)

SpecAbandon == Init /\ [][NextAbandon]_vars

(* ---- KeyLock::drop on its own ---- *)

\* the contents a DashMap<String, u64> can have
RegistryChoices == [Keys -> {NoEntry} \cup 0..(MaxCalls - 1)]

\* drop() takes any KeyLock and any registry content: every set of KeyLock
\* values over every registry, whatever calls produced them
InitRelease ==
  \E map \in RegistryChoices, gs \in SUBSET AllKeyLocks, w \in 1..MaxWorkers,
     sh \in ShardChoices :
    /\ locks = map
    /\ guards = gs
    /\ shardOf = sh
    /\ shardLock = [s \in Shards |-> NoTask]
    /\ counter = MaxCalls
    /\ workers = w
    /\ retryCfg = DEFAULT_RETRY
    /\ timeoutCfg = DEFAULT_TIMEOUT
    /\ NoCalls

NextRelease ==
  \/ \E g \in AllKeyLocks : DropBegin(g)
  \/ \E g \in AllKeyLocks : Drop(g)

SpecRelease == InitRelease /\ [][NextRelease]_vars

(* ---- predicates on the threads ---- *)

\* task t is on a thread, inside entry(), waiting for the shard's write lock
Blocked(t) == pc[t] = "attempt" /\ ~ShardFree(key[t])

\* the drop of g is on a thread, inside remove_if(), waiting for the lock
DropBlocked(g) == g \in dropping /\ ~ShardFree(g.key)

\* every worker thread is blocked on a shard lock; the holders of the locks
\* are suspended in select! and need a worker to be polled again
AllWorkersBlocked ==
  /\ ~FreeWorker
  /\ \A t \in Tasks : pc[t] = "attempt" => Blocked(t)
  /\ \A g \in dropping : DropBlocked(g)

\* the key k is held: a live KeyLock for it exists
Held(k) == \E g \in guards : g.key = k

\* this step is the insert round of task t
IsInsertRound(t) == pc[t] = "attempt" /\ pc'[t] # "attempt"

\* this step is the return of the call of task t
IsReturn(t) == pc[t] # "idle" /\ pc'[t] = "idle"

(* ---- C1 ---- *)

\* C1: mutual exclusion: for every key at most one live KeyLock exists, in
\* every reachable state, whatever modes the concurrent callers use.
C1_MutualExclusion ==
  \A k \in Keys : Cardinality({g \in guards : g.key = k}) <= 1

\* a key is held by a guard while another caller waits for it in select!
C1_Witness ==
  \E g \in guards : \E t \in Tasks :
    pc[t] = "select" /\ key[t] = g.key /\ token_id[t] # g.token_id

(* ---- C2 ---- *)

\* C2: a registry step (entry() of a call, remove_if() of a drop) on a key is
\* never kept waiting by a task that waits for a different key.
C2_UnrelatedKeysNeverBlocked ==
  /\ \A t \in Tasks : Blocked(t) => key[shardLock[shardOf[key[t]]]] = key[t]
  /\ \A g \in dropping : DropBlocked(g) => key[shardLock[shardOf[g.key]]] = g.key

(* ---- C3 ---- *)

\* C3: when a holder drops its guard for K while a waiter is suspended in the
\* retry wait for K, the drop goes through; the dropper and the waiter are
\* never blocked on each other (the drop waiting for the waiter's RefMut, the
\* waiter waiting for the thread the drop is blocked on).
C3_DropperAndWaiterNeverBlockEachOther ==
  ~ \E g \in dropping : \E t \in Tasks :
      /\ pc[t] = "select"
      /\ key[t] = g.key
      /\ shardLock[shardOf[g.key]] = t
      /\ AllWorkersBlocked

(* ---- C4 ---- *)

\* C4: release correctness: the step that drops the guard of K leaves K
\* without an entry; an insert round that finds K without an entry returns a
\* guard; and the token of a live guard differs from the token of the guard
\* dropped before it for the same key.
C4_ReleaseCorrectness ==
  /\ [](\A g \in guards : g.token_id # released[g.key])
  /\ [][/\ \A g \in guards \ guards' : locks'[g.key] = NoEntry
        /\ \A t \in Tasks :
             (IsInsertRound(t) /\ locks[key[t]] = NoEntry)
               => /\ result'[t] = "guard"
                  /\ KeyLock(key[t], token_id[t]) \in guards'
                  /\ locks'[key[t]] = token_id[t]]_vars

\* a key is held again after an earlier guard for it was dropped
C4_Witness ==
  \E g \in guards : released[g.key] # NoEntry /\ locks[g.key] = g.token_id

(* ---- C5 ---- *)

\* C5: try_lock_now never waits (it is never blocked inside entry()), and its
\* single insert-if-absent returns a guard exactly if the key had no entry.
C5_TryLockNowImmediate ==
  /\ [](\A t \in Tasks : mode[t] = "try_lock_now" => ~Blocked(t))
  /\ [][\A t \in Tasks :
          (mode[t] = "try_lock_now" /\ IsInsertRound(t))
            => (result'[t] = "guard" <=> locks[key[t]] = NoEntry)]_vars

(* ---- C6 ---- *)

\* C6: cancellation boundary: a call makes no insert round once its signal
\* has fired, and a call whose signal has fired returns None.
C6_CancellationBoundary ==
  [][\A t \in Tasks :
       /\ IsInsertRound(t) => ~cancelled[t]
       /\ (IsReturn(t) /\ cancelled[t]) => result'[t] = "none"]_vars

(* ---- C7 ---- *)

\* C7: timeout lower bound: a lock_with_timeout(K, T) or lock(K) call that
\* returns while K is held returns None, and a call that returns None returns
\* no earlier than T after it started.
C7_TimeoutLowerBound ==
  [][\A t \in Tasks :
       (mode[t] \in {"lock_with_timeout", "lock"} /\ IsReturn(t))
         => /\ Held(key[t]) => result'[t] = "none"
            /\ result'[t] = "none" => elapsed[t] >= timeout[t]]_vars

\* a bounded call on a held key has timed out and returned None
C7_Witness ==
  \E t \in Tasks :
    /\ pc[t] = "idle" /\ result[t] = "none" /\ timer[t] = "fired"
    /\ guards # {}
    /\ \A k \in Keys : locks[k] # NoEntry => Held(k)

(* ---- C8 ---- *)

\* C8: bounded modes terminate: a pending lock_with_timeout or lock call is
\* never in a state from which it cannot return, that is, one where every
\* worker thread is blocked on a shard lock whose holder is suspended.
C8_BoundedCallCanReturn ==
  \A t \in Tasks :
    (mode[t] \in {"lock_with_timeout", "lock"} /\ pc[t] # "idle")
      => ~AllWorkersBlocked

(* ---- C9 ---- *)

\* C9: cancellation responsiveness: once the signal of a call has fired the
\* call starts no retry delay and does not lengthen the one in progress, and
\* when it leaves the retry wait by returning it returns None.
C9_CancellationResponsiveness ==
  [][\A t \in Tasks :
       cancelled[t] =>
         /\ pc'[t] = "select" => (pc[t] = "select" /\ sleep_retry'[t] <= sleep_retry[t])
         /\ (pc[t] = "select" /\ IsReturn(t)) => result'[t] = "none"]_vars

\* the signal has fired while lock_with_token is in a retry wait on a held key
C9_Witness ==
  \E t \in Tasks :
    /\ mode[t] = "lock_with_token" /\ pc[t] = "select"
    /\ cancelled[t] /\ sleep_retry[t] > 0
    /\ Held(key[t])

(* ---- C10 ---- *)

\* min(B * 2^k, M)
BackoffDelay(B, k) == Min(B * 2^k, MAX_BACKOFF)

RECURSIVE BackoffOffset(_, _)
\* the offset of round k: 0, B, 3B, 7B, ... (capped)
BackoffOffset(B, k) ==
  IF k = 0 THEN 0 ELSE BackoffOffset(B, k - 1) + BackoffDelay(B, k - 1)

\* C10: backoff sequence: the delay slept after the k-th failed round is
\* min(B * 2^k, M), no delay exceeds M, and an uncancelled waiter makes its
\* k-th insert round at offset 0, B, 3B, 7B, ... (capped) from its start.
C10_BackoffSequence ==
  \A t \in Tasks :
    (mode[t] \in {"lock_with_token", "lock_with_timeout", "lock"} /\ round[t] < MaxRounds)
      => /\ pc[t] = "select" =>
              /\ retry[t] = BackoffDelay(retryCfg, round[t] - 1)
              /\ retry[t] <= MAX_BACKOFF
         /\ (pc[t] = "attempt" /\ ~cancelled[t] /\ elapsed[t] < MaxTime)
              => elapsed[t] = BackoffOffset(retryCfg, round[t])

(* ---- C11 ---- *)

\* C11: release is remove-if-match: the drop of a guard removes the entry of
\* its key if the entry holds the guard's token, leaves the entry as it is if
\* it holds another token or is absent, and touches no other key.
C11_RemoveIfMatch ==
  [][\A g \in guards \ guards' :
       /\ locks[g.key] = g.token_id => locks'[g.key] = NoEntry
       /\ locks[g.key] # g.token_id => locks'[g.key] = locks[g.key]
       /\ \A k \in Keys \ {g.key} : locks'[k] = locks[k]]_vars

\* a KeyLock was dropped while the entry of its key held another token: the
\* entry of the other holder is still there
C11_Witness ==
  \E k \in Keys : released[k] # NoEntry /\ locks[k] \notin {NoEntry, released[k]}

(* ---- C12 ---- *)

\* C12: registry invariant: a key has an entry exactly if a live guard for it
\* exists, the entry then holds that guard's token, and only the drop of a
\* guard removes an entry.
C12_RegistryInvariant ==
  /\ [](\A k \in Keys :
          /\ locks[k] # NoEntry <=> Held(k)
          /\ \A g \in guards : g.key = k => locks[k] = g.token_id)
  /\ [][\A k \in Keys :
          (locks[k] # NoEntry /\ locks'[k] = NoEntry)
            => \E g \in guards \ guards' : g.key = k]_vars

(* ---- C13 ---- *)

\* C13: timer teardown: once the wait of a lock_with_timeout or lock call has
\* resolved (the call returned, or its caller gave the wait up), no timer
\* task of that call is still pending.
C13_TimerTeardown ==
  \A t \in Tasks : pc[t] \in {"idle", "abandoned"} => timer[t] # "pending"

(* ---- C14 ---- *)

\* C14: token freshness: a call mints one token at its start, the value of
\* the process-wide counter, which every mint advances by one; the call keeps
\* that token through all its rounds and hands it to its guard; the tokens of
\* the calls in progress and of the live guards are pairwise distinct and
\* below the counter, so every later mint, by any manager, is greater.
C14_TokenFreshness ==
  /\ [](\A t \in Tasks : pc[t] # "idle" =>
          /\ token_id[t] < counter
          /\ \A u \in Tasks \ {t} : pc[u] # "idle" => token_id[u] # token_id[t]
          /\ \A g \in guards : g.token_id # token_id[t])
  /\ [](\A g \in guards :
          /\ g.token_id < counter
          /\ \A h \in guards \ {g} : h.token_id # g.token_id)
  /\ [][/\ counter' \in {counter, counter + 1}
        /\ \A t \in Tasks :
             /\ (pc[t] = "idle" /\ pc'[t] # "idle")
                  => (token_id'[t] = counter /\ counter' = counter + 1)
             /\ (pc[t] # "idle" /\ pc'[t] # "idle") => token_id'[t] = token_id[t]
             /\ (pc[t] # "idle" /\ pc'[t] # pc[t]) => counter' = counter
             /\ (IsReturn(t) /\ result'[t] = "guard")
                  => guards' \ guards = {KeyLock(key[t], token_id[t])}]_vars

\* two calls are in progress at once, and between their two mints another
\* token was minted
C14_Witness ==
  \E t, u \in Tasks :
    /\ pc[t] = "select" /\ pc[u] = "select"
    /\ token_id[u] >= token_id[t] + 2

(* ---- C15 ---- *)

\* task u is on a thread with its insert round on key k still to come
Contender(u, k) == pc[u] = "attempt" /\ key[u] = k

\* C15: exactly one winner per round: the first insert round on a key without
\* entry wins (it is never the case that nobody does), and the key then has
\* exactly one guard; every other caller attempting the same key has not won
\* by that step and finds the winner's token, not its own; an insert round
\* that finds the token of a live guard fails and leaves the registry as it is.
C15_ExactlyOneWinner ==
  [][\A t \in Tasks :
       /\ (IsInsertRound(t) /\ locks[key[t]] = NoEntry)
            => /\ result'[t] = "guard"
               /\ Cardinality({g \in guards' : g.key = key[t]}) = 1
               /\ \A u \in Tasks \ {t} : Contender(u, key[t])
                    => /\ pc'[u] = "attempt"
                       /\ ~Acquired(locks'[key[t]], token_id[u])
       /\ (IsInsertRound(t) /\ KeyLock(key[t], locks[key[t]]) \in guards)
            => (result'[t] # "guard" /\ locks' = locks /\ guards' = guards)]_vars

\* two callers attempted the same free key at once: the one that minted its
\* token later won, the other found the winner's token in its first round
C15_Witness ==
  \E g \in guards : \E u \in Tasks :
    /\ pc[u] = "select" /\ key[u] = g.key
    /\ round[u] = 1 /\ elapsed[u] = 0
    /\ token_id[u] < g.token_id
    /\ released[g.key] = NoEntry
    /\ locks[g.key] = g.token_id

(* ---- C16 ---- *)

\* C16: lock_with_token has no deadline of its own: it has no timer task, it
\* returns None only when its signal has fired, and while the signal has not
\* fired and a guard holds the key it does not return: a failed round is
\* followed by a retry sleep.
C16_NoImplicitDeadline ==
  /\ [](\A t \in Tasks : mode[t] = "lock_with_token" => timer[t] = "none")
  /\ [][\A t \in Tasks :
          mode[t] = "lock_with_token" =>
            /\ (IsReturn(t) /\ result'[t] = "none") => cancelled[t]
            /\ (IsReturn(t) /\ ~cancelled[t]) => ~Held(key[t])
            /\ (IsInsertRound(t) /\ ~cancelled[t] /\ Held(key[t]))
                 => (pc'[t] = "select" /\ sleep_retry'[t] = retry[t])]_vars

\* lock_with_token, not cancelled, is in the retry sleep after its second
\* failed round on a key that a guard holds
C16_Witness ==
  \E t \in Tasks :
    /\ mode[t] = "lock_with_token" /\ pc[t] = "select" /\ ~cancelled[t]
    /\ round[t] >= 2 /\ elapsed[t] >= retryCfg
    /\ Held(key[t])

(* ---- C17 ---- *)

\* this step is taken by the call of task t
IsCallStep(t) == pc'[t] # pc[t]

CallKey(t) == IF pc[t] = "idle" THEN key'[t] ELSE key[t]

\* C18: per-key frame: a step of a call on key K (its start, each of its
\* rounds, its sleep and its return) and the drop of a guard for K leave the
\* entries of all keys other than K unchanged.
C18_PerKeyFrame ==
  [][/\ \A t \in Tasks :
          IsCallStep(t) => \A k \in Keys \ {CallKey(t)} : locks'[k] = locks[k]
     /\ \A g \in guards \ guards' :
          \A k \in Keys \ {g.key} : locks'[k] = locks[k]]_vars

\* a guard holds one key while another key, acquired after it, has been
\* released again: the entry of the first key is still its guard's token
C18_Witness ==
  \E g \in guards : \E k \in Keys \ {g.key} :
    /\ released[k] > g.token_id
    /\ locks[k] = NoEntry
    /\ locks[g.key] = g.token_id

(* ---- C19 ---- *)

\* C19: a guard is granted only to the inserter: a call returns a guard for
\* K only if its insert round found K without entry and stored its token,
\* whatever registry content Config.map supplied.
C19_GuardOnlyToInserter ==
  [][\A t \in Tasks :
       (IsReturn(t) /\ result'[t] = "guard")
         => (locks[key[t]] = NoEntry /\ locks'[key[t]] = token_id[t])]_vars

TypeOK ==
  /\ locks \in [Keys -> {NoEntry} \cup 0..MaxCalls]
  /\ shardLock \in [Shards -> {NoTask} \cup Tasks]
  /\ counter \in 0..MaxCalls
  /\ pc \in [Tasks -> {"idle", "attempt", "select", "abandoned"}]
  /\ dropping \subseteq guards
====
